---- MODULE Spec2Model ----
(***************************************************************************)
(* Model of the dashboard module of qq-farm-bot (src/unnamed/part_000,     *)
(* from line 107 on): the in-memory state object, the operations exported  *)
(* to the game client (addLog, updateStatus, getStrategyConfig,            *)
(* updateStrategyConfig, recordStrategyDecision), the runtime settings     *)
(* kept in the shared CONFIG, and the HTTP handler with its authorization. *)
(*                                                                         *)
(* JavaScript numbers that the code tests with Number.isFinite or coerces  *)
(* with Number(x) || d are tagged records: a finite integer, NaN (also the *)
(* reading of undefined and of a non-numeric string) or an infinity; the   *)
(* seconds of a settings patch also come with one decimal, or so large     *)
(* that their milliseconds overflow.                                       *)
(***************************************************************************)
EXTENDS Integers, Sequences, FiniteSets, TLC

VARIABLES
    status,      \* state.status
    baseline,    \* state.baseline
    strategy,    \* state.strategy
    logs,        \* state.logs
    nextLogId,   \* state.nextLogId
    maxLogs,     \* MAX_LOGS, read once from the environment
    config,      \* CONFIG.farmCheckInterval and CONFIG.friendCheckInterval (ms)
    startedAt,   \* state.startedAt
    now,         \* the clock Date.now() reads
    resp,        \* what the last step returned or sent (NoResp: nothing)
    last,        \* the last step: the operation and what it did
    appended,    \* every entry addLog has ever pushed, in order
    held,        \* the value a caller of getStrategyConfig holds
    dashboardToken,  \* DASHBOARD_TOKEN, read once from the environment
    client,      \* a client that polls /api/logs: what it has received so far
    pending,     \* the POST requests whose body has not ended yet
    completed,   \* the POST requests read chunk by chunk whose body has ended, in that order
    launcher     \* the launcher process of index.js: its arguments, its child, its end

vars == <<status, baseline, strategy, logs, nextLogId, maxLogs, config, startedAt, now,
          resp, last, appended, held, dashboardToken, client, pending, completed, launcher>>

-----------------------------------------------------------------------------
(* JavaScript numbers *)

Num(n) == [k |-> "num", n |-> n]
NaN == [k |-> "nan", n |-> 0]
PosInf == [k |-> "inf", n |-> 0]
NegInf == [k |-> "ninf", n |-> 0]
Null == [k |-> "null", n |-> 0]
Undefined == [k |-> "undef", n |-> 0]

\* Number.isFinite(v)
IsFinite(v) == v.k = "num"

\* Number(v) || d
NumberOr(v, d) ==
    IF v.k \in {"nan", "undef", "null"} \/ (v.k = "num" /\ v.n = 0) THEN Num(d) ELSE v

\* a - b
JSub(a, b) ==
    CASE a.k = "nan" \/ b.k = "nan" -> NaN
      [] a.k = "num" /\ b.k = "num" -> Num(a.n - b.n)
      [] a.k = b.k -> NaN
      [] a.k = "inf" \/ b.k = "ninf" -> PosInf
      [] OTHER -> NegInf

\* Math.abs(a)
JAbs(a) ==
    CASE a.k = "num" -> Num(IF a.n < 0 THEN -a.n ELSE a.n)
      [] a.k = "nan" -> NaN
      [] OTHER -> PosInf

\* Math.round(a / b) for integers a and b > 0: halves round up
RoundDiv(a, b) == (2 * a + b) \div (2 * b)

\* Math.round(a / (b / c)) for a JavaScript number a and integers b, c > 0
JRoundRatio(a, b, c) ==
    IF a.k = "num" THEN Num(RoundDiv(a.n * c, b)) ELSE a

\* Math.max(0, Math.min(100, a))
JClampPercent(a) ==
    CASE a.k = "nan" -> NaN
      [] a.k = "inf" -> Num(100)
      [] a.k = "ninf" -> Num(0)
      [] OTHER -> Num(IF a.n < 0 THEN 0 ELSE IF a.n > 100 THEN 100 ELSE a.n)

\* Math.round((c / n) * 100) for JavaScript numbers c and n, n not 0
JRoundPercent(c, n) ==
    CASE c.k = "nan" \/ n.k = "nan" -> NaN
      [] c.k = "num" /\ n.k = "num" ->
            IF n.n > 0 THEN Num(RoundDiv(100 * c.n, n.n))
                       ELSE Num(RoundDiv(-(100 * c.n), -n.n))
      [] c.k = "num" -> Num(0)
      [] n.k \in {"inf", "ninf"} -> NaN
      [] (c.k = "inf") = (n.n > 0) -> PosInf
      [] OTHER -> NegInf

-----------------------------------------------------------------------------
(* Constants of the module *)

RATE_MIN_WINDOW_SEC == 120
GOLD_RATE_REFERENCE == 30000
SEC_PER_HOUR == 3600
MS_PER_SEC == 1000
DEFAULT_MAX_LOGS == 120

-----------------------------------------------------------------------------
(* Bounds of the model *)

StartTime == 1000
MaxUptimeMs == 180000
TickSteps == {59500, 60000}
StrategyTickSteps == {90000}
MaxCapacity == 3
MaxAppends == 5

Platforms == {"qq", "wx"}
Names == {"", "A"}
Levels == {0, 1}
ExpVals == {Num(0), Num(50), NaN, PosInf}
GoldVals == {Num(0), Num(30), NaN}
StatusFields == {"platform", "name", "level", "gold", "exp"}

-----------------------------------------------------------------------------
(* Initial state: the literals of the module *)

InitStatus == [platform |-> "qq", name |-> "", level |-> 0, gold |-> Num(0), exp |-> Num(0)]
InitBaseline == [gold |-> Null, exp |-> Null, ready |-> FALSE, key |-> ""]
InitStrategy ==
    [mode |-> "normalFert", manualSeedId |-> 0, manualSeedName |-> "",
     source |-> "auto", updatedAt |-> 0, lastDecision |-> Null]

NoResp == [kind |-> "none"]

\* The launcher is not looked at
NoLauncher == [phase |-> "none"]
NoOp == [op |-> "init"]

\* The polling client before its first request: since = 0, nothing received,
\* no entry appended yet
InitClient == [since |-> 0, received |-> <<>>, appendedAtPoll |-> 0]

\* No caller holds a value returned by getStrategyConfig
NoHeld == [kind |-> "none"]

\* Both intervals as the configuration module sets them: one second
InitConfig == [farmCheckInterval |-> Num(1000), friendCheckInterval |-> Num(1000)]

-----------------------------------------------------------------------------
(* updateStatus *)

\* The objects updateStatus is called with: has names the fields the object
\* carries (a field it does not carry holds the first value of its set).
ObjectPartials ==
    {p \in [obj : {TRUE}, has : SUBSET StatusFields, platform : Platforms, name : Names,
            level : Levels, gold : GoldVals, exp : ExpVals] :
        /\ "platform" \notin p.has => p.platform = "qq"
        /\ "name" \notin p.has => p.name = ""
        /\ "level" \notin p.has => p.level = 0
        /\ "gold" \notin p.has => p.gold = Num(0)
        /\ "exp" \notin p.has => p.exp = Num(0)}

\* An argument that is no object (undefined, null, a number)
NonObject ==
    [obj |-> FALSE, has |-> {}, platform |-> "qq", name |-> "", level |-> 0,
     gold |-> Num(0), exp |-> Num(0)]

Partials == ObjectPartials \cup {NonObject}

\* Object.assign(state.status, partial)
Assign(st, p) == [f \in StatusFields |-> IF f \in p.has THEN p[f] ELSE st[f]]

\* !!name || Number(state.status.level || 0) > 0
LoginReady(st) == st.name # "" \/ st.level > 0

\* loginReady ? (platform + ':' + name) : ''
IdentityKey(st) == IF LoginReady(st) THEN st.platform \o ":" \o st.name ELSE ""

\* prevName !== state.status.name || prevPlatform !== state.status.platform
IdentityChanged(prev, st) == prev.name # st.name \/ prev.platform # st.platform

\* updateStatus without its first if: a changed identity keeps the old baseline
InvalidatedNever(base, st) == base

\* The invalidation step without its assignment to state.baseline.ready
InvalidatedKeepsReady(base, st) ==
    IF base.ready /\ IdentityKey(st) # "" /\ base.key # "" /\ IdentityKey(st) # base.key
    THEN [gold |-> Null, exp |-> Null, ready |-> TRUE, key |-> ""]
    ELSE base

\* The first if of updateStatus: the baseline after the invalidation step
Invalidated(base, st) ==
    IF base.ready /\ IdentityKey(st) # "" /\ base.key # "" /\ IdentityKey(st) # base.key
    THEN [gold |-> Null, exp |-> Null, ready |-> FALSE, key |-> ""]
    ELSE base

\* The second condition without its !state.baseline.ready: every login-ready
\* update anchors again
ShouldAnchorAlways(base, prev, st) ==
    /\ LoginReady(st)
    /\ (IdentityChanged(prev, st) \/ IsFinite(st.exp) \/ IsFinite(st.gold))

\* The condition of the second if of updateStatus
ShouldAnchor(base, prev, st) ==
    /\ ~base.ready
    /\ LoginReady(st)
    /\ (IdentityChanged(prev, st) \/ IsFinite(st.exp) \/ IsFinite(st.gold))

\* The anchoring step without its assignment to state.baseline.key
AnchoredKeepsKey(base, prev, st) ==
    IF ShouldAnchor(base, prev, st)
    THEN [gold |-> IF IsFinite(st.gold) THEN st.gold ELSE Num(0),
          exp |-> IF IsFinite(st.exp) THEN st.exp ELSE Num(0),
          ready |-> TRUE,
          key |-> base.key]
    ELSE base

\* The second if of updateStatus: the baseline after the anchoring step
Anchored(base, prev, st) ==
    IF ShouldAnchor(base, prev, st)
    THEN [gold |-> IF IsFinite(st.gold) THEN st.gold ELSE Num(0),
          exp |-> IF IsFinite(st.exp) THEN st.exp ELSE Num(0),
          ready |-> TRUE,
          key |-> IdentityKey(st)]
    ELSE base

\* Whether the argument itself carries a finite exp or a finite gold
CarriesFinite(p) ==
    \/ "exp" \in p.has /\ IsFinite(p.exp)
    \/ "gold" \in p.has /\ IsFinite(p.gold)

UpdateStatus(p) ==
    /\ IF ~p.obj
       THEN /\ UNCHANGED <<status, baseline>>
            /\ last' = [op |-> "updateStatus", applied |-> FALSE]
       ELSE /\ status' = Assign(status, p)
            /\ baseline' = Anchored(Invalidated(baseline, status'), status, status')
            /\ last' = [op |-> "updateStatus", applied |-> TRUE,
                        prevReady |-> baseline.ready,
                        rotated |-> (/\ baseline.ready
                                     /\ LoginReady(status')
                                     /\ IdentityKey(status') # baseline.key),
                        keyKept |-> (IdentityKey(status') = IdentityKey(status)),
                        baselineKept |-> (baseline' = baseline),
                        invalidated |-> (Invalidated(baseline, status') # baseline),
                        anchored |-> ShouldAnchor(Invalidated(baseline, status'), status, status'),
                        identityChanged |-> IdentityChanged(status, status'),
                        carriesFinite |-> CarriesFinite(p)]
    /\ resp' = NoResp
    /\ UNCHANGED <<strategy, logs, nextLogId, maxLogs, config, startedAt, now, appended, held,
                   dashboardToken, client,
                   pending, completed, launcher>>

-----------------------------------------------------------------------------
(* buildMetrics and GET /api/state *)

\* What getLevelExpProgress(level, exp) of ./gameConfig may return: the
\* function is outside this module, so any {current, needed} is drawn.
ProgressVals ==
    [current : {Num(0), Num(40), NaN}, needed : {Num(100), Num(0), Num(-100), NaN}]

\* Math.floor((Date.now() - state.startedAt) / 1000)
UptimeSec == (now - startedAt) \div MS_PER_SEC

\* The rate is ready as soon as any time has passed
RateReadyAnyUptime(uptimeSec) == uptimeSec > 0

\* uptimeSec >= RATE_MIN_WINDOW_SEC
RateReady(uptimeSec) == uptimeSec >= RATE_MIN_WINDOW_SEC

buildMetrics(uptimeSec, progress) ==
    LET exp == NumberOr(status.exp, 0)
        gold == NumberOr(status.gold, 0)
        baseExp == IF baseline.ready /\ baseline.exp # Null THEN baseline.exp ELSE exp
        baseGold == IF baseline.ready /\ baseline.gold # Null THEN baseline.gold ELSE gold
        expGain == JSub(exp, baseExp)
        goldGain == JSub(gold, baseGold)
        expNeeded == NumberOr(progress.needed, 1)
        expCurrent == NumberOr(progress.current, 0)
        rateReady == RateReady(uptimeSec)
        expPerHour == IF rateReady THEN JRoundRatio(expGain, uptimeSec, SEC_PER_HOUR) ELSE Num(0)
        goldPerHour == IF rateReady THEN JRoundRatio(goldGain, uptimeSec, SEC_PER_HOUR) ELSE Num(0)
    IN [expGain |-> expGain,
        goldGain |-> goldGain,
        expPerHour |-> expPerHour,
        goldPerHour |-> goldPerHour,
        rateReady |-> rateReady,
        rateWindowSec |-> RATE_MIN_WINDOW_SEC,
        expCurrent |-> expCurrent,
        expNeeded |-> expNeeded,
        expProgress |-> JClampPercent(JRoundPercent(expCurrent, expNeeded)),
        goldRateProgress |->
            JClampPercent(JRoundRatio(JAbs(goldPerHour), GOLD_RATE_REFERENCE, 100))]

getStrategyConfig ==
    [mode |-> strategy.mode,
     manualSeedId |-> strategy.manualSeedId,
     manualSeedName |-> strategy.manualSeedName,
     source |-> IF strategy.source = "" THEN "auto" ELSE strategy.source,
     updatedAt |-> strategy.updatedAt,
     lastDecision |-> strategy.lastDecision]

\* Math.max(1, Math.round(Number(ms || 1000) / 1000)) for a number of
\* milliseconds that is an integer or Infinity
IntervalSec(ms) ==
    IF ms.k = "inf"
    THEN PosInf
    ELSE LET r == RoundDiv(IF ms.n = 0 THEN 1000 ELSE ms.n, MS_PER_SEC)
         IN Num(IF r < 1 THEN 1 ELSE r)

getRuntimeSettings ==
    [farmIntervalSec |-> IntervalSec(config.farmCheckInterval),
     friendIntervalSec |-> IntervalSec(config.friendCheckInterval)]

\* The length of the buffer in the place of the id of its last entry
LastLogIdFromLength == Len(logs)

\* state.logs.length ? state.logs[state.logs.length - 1].id : 0
LastLogId == IF Len(logs) > 0 THEN logs[Len(logs)].id ELSE 0

\* The clock moves between two operations
Tick(d) ==
    /\ now + d - startedAt <= MaxUptimeMs
    /\ now' = now + d
    /\ resp' = NoResp
    /\ last' = [op |-> "tick"]
    /\ UNCHANGED <<status, baseline, strategy, logs, nextLogId, maxLogs, config,
                   startedAt, appended, held,
                   dashboardToken, client,
                   pending, completed, launcher>>

\* handleRequest, pathname /api/state
\* The object sent for /api/state (without serverTime)
StatePayload(progress) ==
    [kind |-> "state", code |-> 200,
     status |-> status,
     uptimeSec |-> UptimeSec,
     metrics |-> buildMetrics(UptimeSec, progress),
     strategy |-> getStrategyConfig,
     settings |-> getRuntimeSettings,
     lastLogId |-> LastLogId]

ApiState(progress) ==
    /\ resp' = StatePayload(progress)
    /\ last' = [op |-> "apiState", progress |-> progress]
    /\ UNCHANGED <<status, baseline, strategy, logs, nextLogId, maxLogs, config,
                   startedAt, now, appended, held,
                   dashboardToken, client,
                   pending, completed, launcher>>

-----------------------------------------------------------------------------
(* addLog, getLogsSince and GET /api/logs *)

\* The arguments addLog is called with; a message that is undefined or empty
\* is the empty string
LogInputs ==
    {[level |-> "INFO", message |-> "started"], [level |-> "ERROR", message |-> ""]}

\* state.nextLogId++ as the expression's value
NewLogIdFromLength == Len(logs) + 1

NewLogId == nextLogId

\* The entry is dropped at the wrong end: pop() for shift()
TrimNewest(ls) == IF Len(ls) > maxLogs THEN SubSeq(ls, 1, Len(ls) - 1) ELSE ls

\* if (state.logs.length > MAX_LOGS) state.logs.shift()
Trim(ls) == IF Len(ls) > maxLogs THEN Tail(ls) ELSE ls

AddLog(in) ==
    /\ Len(appended) < MaxAppends
    /\ IF maxLogs <= 0
       THEN UNCHANGED <<logs, nextLogId, appended>>
       ELSE LET item == [id |-> NewLogId, ts |-> now, level |-> in.level,
                         message |-> in.message]
            IN /\ nextLogId' = nextLogId + 1
               /\ logs' = Trim(Append(logs, item))
               /\ appended' = Append(appended, item)
    /\ resp' = NoResp
    /\ last' = [op |-> "addLog"]
    /\ UNCHANGED <<status, baseline, strategy, maxLogs, config, startedAt, now, held,
                   dashboardToken, client,
                   pending, completed, launcher>>

\* The since parameter of the query: absent (Null), a numeric string, or a
\* string that is no number (NaN) or reads as Infinity
SinceParams == {Null, NaN, PosInf} \cup {Num(n) : n \in -1 .. MaxAppends}

\* Number(parsed.searchParams.get('since') || 0)
ParseSince(param) == IF param = Null THEN Num(0) ELSE param

\* The filter keeps the entry with the given id as well: >= for >
getLogsSinceInclusive(sinceId) ==
    IF ~IsFinite(sinceId) \/ sinceId.n <= 0
    THEN logs
    ELSE SelectSeq(logs, LAMBDA item : item.id >= sinceId.n)

getLogsSince(sinceId) ==
    IF ~IsFinite(sinceId) \/ sinceId.n <= 0
    THEN logs
    ELSE SelectSeq(logs, LAMBDA item : item.id > sinceId.n)

\* handleRequest, pathname /api/logs
\* The object sent for /api/logs
LogsPayload(param) ==
    [kind |-> "logs", code |-> 200,
     logs |-> getLogsSince(ParseSince(param)),
     lastLogId |-> LastLogId]

ApiLogs(param) ==
    /\ resp' = LogsPayload(param)
    /\ last' = [op |-> "apiLogs", since |-> ParseSince(param), logsBefore |-> logs]
    /\ UNCHANGED <<status, baseline, strategy, logs, nextLogId, maxLogs, config,
                   startedAt, now, appended, held,
                   dashboardToken, client,
                   pending, completed, launcher>>

\* A client requests /api/logs?since=<the lastLogId of its previous response>
\* and keeps what it receives
PollLogs ==
    /\ resp' = LogsPayload(Num(client.since))
    /\ client' = [since |-> LastLogId,
                  received |-> client.received \o getLogsSince(ParseSince(Num(client.since))),
                  appendedAtPoll |-> Len(appended)]
    /\ last' = [op |-> "pollLogs", since |-> client.since,
                appendedAtPoll |-> client.appendedAtPoll]
    /\ UNCHANGED <<status, baseline, strategy, logs, nextLogId, maxLogs, config,
                   startedAt, now, appended, held, dashboardToken, pending, completed, launcher>>

-----------------------------------------------------------------------------
(* updateRuntimeSettings *)

\* A number of seconds given with one decimal: Tenths(27) is 2.7
Tenths(t) == [k |-> "tenths", n |-> t]

\* A finite number so large that a thousand times it is beyond the largest
\* double (1e306): an integer, and Huge * 1000 is Infinity
Huge == [k |-> "huge", n |-> 0]

\* The values a patch holds in farmIntervalSec or friendIntervalSec: the field
\* is absent (Undefined), or Number() of it is NaN, Infinity, a number with
\* one decimal or a huge number
SettingVals ==
    {Undefined, NaN, PosInf, Huge} \cup {Tenths(t) : t \in {-10, 0, 5, 27}}

\* The patches updateRuntimeSettings is called with; an argument that is
\* undefined or null provides no field
SettingsPatches == [farmIntervalSec : SettingVals, friendIntervalSec : SettingVals]

\* The validation without its test: every provided value is taken
ValidIntervalAny(v) == TRUE

\* Number.isFinite(v) && v > 0, the negation of the test of lines 355 and 363
ValidInterval(v) == v.k = "huge" \/ (v.k = "tenths" /\ v.n > 0)

\* Math.max(1, Math.floor(v))
FloorSec(v) ==
    CASE v.k = "tenths" -> Num(IF v.n \div 10 < 1 THEN 1 ELSE v.n \div 10)
      [] OTHER -> v

\* sec * 1000 in double arithmetic
SecToMs(sec) == IF sec.k = "num" THEN Num(sec.n * MS_PER_SEC) ELSE PosInf

\* next.farmIntervalSec or next.friendIntervalSec at line 369
NextSec(current, v) == IF v = Undefined THEN current ELSE FloorSec(v)

\* The message of the error updateRuntimeSettings(patch) throws, "" when it
\* throws none
SettingsError(patch) ==
    IF patch.farmIntervalSec # Undefined /\ ~ValidInterval(patch.farmIntervalSec)
    THEN "invalid_farm_interval"
    ELSE IF patch.friendIntervalSec # Undefined
              /\ ~ValidInterval(patch.friendIntervalSec)
    THEN "invalid_friend_interval"
    ELSE ""

\* next at line 369
NextSettingsOf(patch) ==
    [farmIntervalSec |->
        NextSec(getRuntimeSettings.farmIntervalSec, patch.farmIntervalSec),
     friendIntervalSec |->
        NextSec(getRuntimeSettings.friendIntervalSec, patch.friendIntervalSec)]

\* CONFIG after lines 369 and 370
UpdatedConfig(patch) ==
    [farmCheckInterval |-> SecToMs(NextSettingsOf(patch).farmIntervalSec),
     friendCheckInterval |-> SecToMs(NextSettingsOf(patch).friendIntervalSec)]

\* getRuntimeSettings() for the configuration cfg
SettingsOf(cfg) ==
    [farmIntervalSec |-> IntervalSec(cfg.farmCheckInterval),
     friendIntervalSec |-> IntervalSec(cfg.friendCheckInterval)]

\* CONFIG after updateRuntimeSettings(patch) has run on the configuration cfg
\* without throwing
ConfigAfter(cfg, patch) ==
    [farmCheckInterval |->
        SecToMs(NextSec(SettingsOf(cfg).farmIntervalSec, patch.farmIntervalSec)),
     friendCheckInterval |->
        SecToMs(NextSec(SettingsOf(cfg).friendIntervalSec, patch.friendIntervalSec))]

UpdateRuntimeSettings(patch) ==
    /\ IF SettingsError(patch) # ""
       THEN /\ resp' = [kind |-> "error", message |-> SettingsError(patch)]
            /\ UNCHANGED config
       ELSE /\ config' = UpdatedConfig(patch)
            /\ resp' = [kind |-> "settings", value |-> NextSettingsOf(patch)]
    /\ last' = [op |-> "updateRuntimeSettings", patch |-> patch, prev |-> config]
    /\ UNCHANGED <<status, baseline, strategy, logs, nextLogId, maxLogs, startedAt, now,
                   appended, held, dashboardToken, client,
                   pending, completed, launcher>>

-----------------------------------------------------------------------------
(* updateStrategyConfig and recordStrategyDecision *)

\* The patches updateStrategyConfig is called with. mode "" stands for a patch
\* without mode and "fast" for a value that is no mode; manualSeedId is absent
\* (Undefined), null, a number, or a value that is no number (NaN);
\* manualSeedName "" stands for a patch without a name or with an empty one.
PatchModes == {"", "normalFert", "noFert", "fast"}
PatchSeedIds == {Undefined, Null, NaN, Num(0), Num(7), Num(9), Num(-3)}
PatchSeedNames == {"", "X", "Y"}

ObjectPatches ==
    [obj : {TRUE}, mode : PatchModes, clearManual : BOOLEAN,
     manualSeedId : PatchSeedIds, manualSeedName : PatchSeedNames]

\* An argument that is no object (undefined, null, a string)
NonObjectPatch ==
    [obj |-> FALSE, mode |-> "", clearManual |-> FALSE, manualSeedId |-> Undefined,
     manualSeedName |-> ""]

StrategyPatches == ObjectPatches \cup {NonObjectPatch}

\* The mode is stored without the test of line 258: any mode given is taken
AfterModeAny(s, patch) ==
    IF patch.mode # "" THEN [s EXCEPT !.mode = patch.mode] ELSE s

\* if (patch.mode === 'normalFert' || patch.mode === 'noFert')
AfterMode(s, patch) ==
    IF patch.mode = "normalFert" \/ patch.mode = "noFert"
    THEN [s EXCEPT !.mode = patch.mode]
    ELSE s

\* clearManual without the assignment to source
AfterClearKeepsSource(s, patch) ==
    IF patch.clearManual
    THEN [s EXCEPT !.manualSeedId = 0, !.manualSeedName = ""]
    ELSE s

\* clearManual without the assignment to manualSeedName
AfterClearKeepsName(s, patch) ==
    IF patch.clearManual
    THEN [s EXCEPT !.manualSeedId = 0, !.source = "auto"]
    ELSE s

\* clearManual that also empties the decision slot
AfterClearDropsDecision(s, patch) ==
    IF patch.clearManual
    THEN [s EXCEPT !.manualSeedId = 0, !.manualSeedName = "", !.source = "auto",
                   !.lastDecision = Null]
    ELSE s

\* if (patch.clearManual)
AfterClear(s, patch) ==
    IF patch.clearManual
    THEN [s EXCEPT !.manualSeedId = 0, !.manualSeedName = "", !.source = "auto"]
    ELSE s

\* The seed is stored without the source being set to manual
AfterSeedKeepsSource(s, patch) ==
    IF patch.manualSeedId # Undefined
    THEN [s EXCEPT !.manualSeedId = NumberOr(patch.manualSeedId, 0).n]
    ELSE s

\* if (patch.manualSeedId !== undefined)
AfterSeed(s, patch) ==
    IF patch.manualSeedId # Undefined
    THEN LET sid == NumberOr(patch.manualSeedId, 0).n
         IN IF sid > 0
            THEN [s EXCEPT !.manualSeedId = sid,
                           !.source = "manual",
                           !.manualSeedName =
                               IF patch.manualSeedName # "" THEN patch.manualSeedName
                               ELSE s.manualSeedName]
            ELSE [s EXCEPT !.manualSeedId = sid]
    ELSE s

\* state.strategy when updateStrategyConfig(patch) returns
UpdatedStrategy(s, patch) ==
    IF ~patch.obj
    THEN s
    ELSE [AfterSeed(AfterClear(AfterMode(s, patch), patch), patch)
             EXCEPT !.updatedAt = now]

UpdateStrategyConfig(patch) ==
    /\ strategy' = UpdatedStrategy(strategy, patch)
    /\ resp' = [kind |-> "strategy", value |-> getStrategyConfig']
    /\ last' = [op |-> "updateStrategyConfig",
                clearOnly |-> patch.clearManual /\ patch.manualSeedId = Undefined,
                pinned |-> IF patch.manualSeedId.k = "num" /\ patch.manualSeedId.n > 0
                           THEN patch.manualSeedId.n ELSE 0,
                pinnedName |-> IF patch.manualSeedId.k = "num" /\ patch.manualSeedId.n > 0
                               THEN patch.manualSeedName ELSE "",
                otherMode |-> patch.mode \notin {"", "normalFert", "noFert"},
                prevMode |-> strategy.mode,
                clearPinned |-> patch.clearManual /\ patch.manualSeedId.k = "num"
                                   /\ patch.manualSeedId.n > 0,
                prevSeedId |-> strategy.manualSeedId,
                prevName |-> strategy.manualSeedName,
                prevDecision |-> strategy.lastDecision]
    /\ UNCHANGED <<status, baseline, logs, nextLogId, maxLogs, config, startedAt, now,
                   appended, held,
                   dashboardToken, client,
                   pending, completed, launcher>>

\* The decisions recordStrategyDecision is called with: nothing (Null), or an
\* object, which may hold a field at of its own
Decisions ==
    {Null,
     [k |-> "obj", hasAt |-> FALSE, at |-> 0, seedId |-> 7],
     [k |-> "obj", hasAt |-> TRUE, at |-> 5, seedId |-> 9]}

\* { at: Date.now(), ...(decision || {}) }
RecordStrategyDecision(decision) ==
    /\ strategy' =
          [strategy EXCEPT !.lastDecision =
              IF decision = Null
              THEN [k |-> "obj", at |-> now, seedId |-> 0]
              ELSE [k |-> "obj", at |-> IF decision.hasAt THEN decision.at ELSE now,
                    seedId |-> decision.seedId]]
    /\ held' = IF held = NoHeld THEN held ELSE [held EXCEPT !.same = FALSE]
    /\ resp' = NoResp
    /\ last' = [op |-> "recordStrategyDecision", decision |-> decision, prev |-> strategy]
    /\ UNCHANGED <<status, baseline, logs, nextLogId, maxLogs, config, startedAt, now,
                   appended, dashboardToken, client,
                   pending, completed, launcher>>

\* A caller calls the exported getStrategyConfig and keeps the object it
\* returns. The object is new and the fields are copied into it; lastDecision
\* is an object, so the copy refers to the very object the store holds
\* (same), as long as there is one.
GetStrategyConfig ==
    /\ held' = [kind |-> "config", value |-> getStrategyConfig,
                same |-> strategy.lastDecision # Null]
    /\ resp' = [kind |-> "strategy", value |-> getStrategyConfig]
    /\ last' = [op |-> "getStrategyConfig"]
    /\ UNCHANGED <<status, baseline, strategy, logs, nextLogId, maxLogs, config,
                   startedAt, now, appended, dashboardToken, client,
                   pending, completed, launcher>>

\* The assignments a caller makes to the object it holds: to a field of the
\* object, or to a field of the lastDecision object in it
Mutations == {"mode", "manualSeedId", "lastDecision", "lastDecision.seedId"}

\* The value a caller writes into a seedId
MutatedSeedId == 1

MutateReturned(field) ==
    /\ held # NoHeld
    /\ CASE field = "mode" ->
               /\ held' = [held EXCEPT !.value.mode = "fast"]
               /\ UNCHANGED strategy
         [] field = "manualSeedId" ->
               /\ held' = [held EXCEPT !.value.manualSeedId = MutatedSeedId]
               /\ UNCHANGED strategy
         [] field = "lastDecision" ->
               /\ held' = [held EXCEPT !.value.lastDecision = Null, !.same = FALSE]
               /\ UNCHANGED strategy
         [] field = "lastDecision.seedId" ->
               /\ held.value.lastDecision # Null
               /\ held' = [held EXCEPT !.value.lastDecision.seedId = MutatedSeedId]
               /\ strategy' = IF held.same
                               THEN [strategy EXCEPT !.lastDecision.seedId = MutatedSeedId]
                               ELSE strategy
    /\ resp' = NoResp
    /\ last' = [op |-> "mutateReturned", before |-> getStrategyConfig]
    /\ UNCHANGED <<status, baseline, logs, nextLogId, maxLogs, config, startedAt, now,
                   appended, dashboardToken, client,
                   pending, completed, launcher>>

-----------------------------------------------------------------------------
(* getRequestToken, ensureAuthorized and handleRequest *)

\* The secret DASHBOARD_TOKEN holds when one is configured
Secret == "s3cret"

\* parsed.searchParams.get('token') || '': no token or an empty one, the
\* secret, or another value
QueryTokens == {"", Secret, "guess"}

\* req.headers.authorization: the scheme before the first blank ("" for no
\* header), the value after it, and whether blanks surround the value
AuthHeaders ==
    {[scheme |-> "", value |-> "", padded |-> FALSE],
     [scheme |-> "Bearer", value |-> Secret, padded |-> FALSE],
     [scheme |-> "Bearer", value |-> Secret, padded |-> TRUE],
     [scheme |-> "Bearer", value |-> "guess", padded |-> FALSE],
     [scheme |-> "Basic", value |-> Secret, padded |-> FALSE]}

\* auth.startsWith('Bearer ') ? auth.slice(7).trim() : ''
BearerToken(auth) == IF auth.scheme = "Bearer" THEN auth.value ELSE ""

getRequestToken(req) ==
    IF req.token # "" THEN req.token ELSE BearerToken(req.authorization)

\* ensureAuthorized without its comparison: every request passes
ensureAuthorizedAlways(req) == TRUE

\* Whether ensureAuthorized returns true
ensureAuthorized(req) ==
    dashboardToken = "" \/ getRequestToken(req) = dashboardToken

\* A patch that provides no field
NoSettings == [farmIntervalSec |-> Undefined, friendIntervalSec |-> Undefined]
NoStrategy ==
    [obj |-> TRUE, mode |-> "", clearManual |-> FALSE, manualSeedId |-> Undefined,
     manualSeedName |-> ""]

\* The bodies of the requests: none, text that is no JSON, and JSON values
\* read as the patch of the route they are sent to:
\* {"farmIntervalSec": 2.7}, {"friendIntervalSec": -1},
\* {"manualSeedId": 7, "manualSeedName": "X"},
\* {"clearManual": true, "mode": "noFert"} and the number 5
Bodies ==
    {[kind |-> "empty", settings |-> NoSettings, strategy |-> NoStrategy],
     [kind |-> "invalid", settings |-> NoSettings, strategy |-> NoStrategy],
     [kind |-> "json", strategy |-> NoStrategy,
      settings |-> [NoSettings EXCEPT !.farmIntervalSec = Tenths(27)]],
     [kind |-> "json", strategy |-> NoStrategy,
      settings |-> [NoSettings EXCEPT !.friendIntervalSec = Tenths(-10)]],
     [kind |-> "json", settings |-> NoSettings,
      strategy |-> [NoStrategy EXCEPT !.manualSeedId = Num(7), !.manualSeedName = "X"]],
     [kind |-> "json", settings |-> NoSettings,
      strategy |-> [NoStrategy EXCEPT !.clearManual = TRUE, !.mode = "noFert"]],
     [kind |-> "json", settings |-> NoSettings, strategy |-> NonObjectPatch]}

Paths ==
    {"/", "/calc", "/api/state", "/api/settings", "/api/calc", "/api/strategy",
     "/api/logs", "/nope"}

Methods == {"GET", "POST", "PUT"}

\* The requests: a GET has no body
Requests ==
    {req \in [path : Paths, method : Methods, token : QueryTokens,
              authorization : AuthHeaders, body : Bodies] :
        req.method = "GET" => req.body.kind = "empty"}

\* What getLevelExpProgress returns while requests are handled
HttpProgressVals ==
    {[current |-> Num(40), needed |-> Num(100)], [current |-> NaN, needed |-> Num(0)]}

\* getLevelExpProgress is outside this module: it returns or it throws
Throws == [kind |-> "throws"]

\* An exception that leaves handleRequest: nothing was written to res, no
\* status code was sent
Escaped == [kind |-> "exception", code |-> 0]

\* new URL(req.url || '/', 'http://127.0.0.1') throws for a request target
\* without host such as "//"
UrlParses(url) == url # "//"

\* getCalcPayload returns, or getPlantingRecommendation throws an Error with
\* a message or without one: e.message || 'calc_failed'
CalcOutcomes ==
    {[kind |-> "calc", code |-> 200], [kind |-> "json", code |-> 500, error |-> "boom"],
     [kind |-> "json", code |-> 500, error |-> "calc_failed"]}

\* readJsonBody takes every body as JSON
BodyRejectedNever(body) == FALSE

\* Whether readJsonBody rejects: there are chunks and JSON.parse throws
BodyRejected(body) == body.kind = "invalid"

\* sendJson(res, { error: msg }, code)
JsonError(code, msg) == [kind |-> "json", code |-> code, error |-> msg]

\* The two answers of ensureAuthorized to a request it rejects
Rejected(req) ==
    IF req.path = "/" THEN [kind |-> "text", code |-> 401]
    ELSE JsonError(401, "Unauthorized")

\* A route that reads refreshes updatedAt
ReadRefreshes ==
    /\ strategy' = [strategy EXCEPT !.updatedAt = now]
    /\ UNCHANGED config

\* The routes /api/state, /api/logs, GET /api/strategy and GET /api/settings
\* assign nothing
ReadOnly == UNCHANGED <<strategy, config>>

\* Whether the request goes to one of these routes
IsRead(req) ==
    \/ req.path \in {"/api/state", "/api/logs"}
    \/ req.path \in {"/api/strategy", "/api/settings"} /\ req.method = "GET"

\* handleRequest after ensureAuthorized has returned true; a POST is taken
\* with its body received
Route(req) ==
    CASE req.path = "/calc" ->
            /\ resp' \in {[kind |-> "file", code |-> 200], JsonError(404, "Not Found")}
            /\ UNCHANGED <<strategy, config>>
      [] req.path = "/" ->
            /\ resp' = [kind |-> "html", code |-> 200]
            /\ UNCHANGED <<strategy, config>>
      [] req.path = "/api/state" ->
            /\ \E progress \in HttpProgressVals \cup {Throws} :
                  resp' = IF progress = Throws THEN Escaped ELSE StatePayload(progress)
            /\ ReadOnly
      [] req.path = "/api/settings" /\ req.method = "GET" ->
            /\ resp' = [kind |-> "settings", code |-> 200, value |-> getRuntimeSettings]
            /\ ReadOnly
      [] req.path = "/api/settings" /\ req.method = "POST" ->
            /\ IF BodyRejected(req.body)
               THEN /\ resp' = JsonError(400, "invalid_json")
                    /\ UNCHANGED config
               ELSE IF SettingsError(req.body.settings) # ""
               THEN /\ resp' = JsonError(400, SettingsError(req.body.settings))
                    /\ UNCHANGED config
               ELSE /\ config' = UpdatedConfig(req.body.settings)
                    /\ resp' = [kind |-> "settings", code |-> 200,
                                value |-> NextSettingsOf(req.body.settings)]
            /\ UNCHANGED strategy
      [] req.path = "/api/calc" ->
            /\ resp' \in CalcOutcomes
            /\ UNCHANGED <<strategy, config>>
      [] req.path = "/api/strategy" /\ req.method = "GET" ->
            /\ resp' = [kind |-> "strategy", code |-> 200, value |-> getStrategyConfig]
            /\ ReadOnly
      [] req.path = "/api/strategy" /\ req.method = "POST" ->
            /\ IF BodyRejected(req.body)
               THEN /\ resp' = JsonError(400, "invalid_json")
                    /\ UNCHANGED strategy
               ELSE /\ strategy' = UpdatedStrategy(strategy, req.body.strategy)
                    /\ resp' = [kind |-> "strategy", code |-> 200,
                                value |-> getStrategyConfig']
            /\ UNCHANGED config
      [] req.path = "/api/logs" ->
            /\ resp' = LogsPayload(Null)
            /\ ReadOnly
      [] OTHER ->
            /\ resp' = JsonError(404, "Not Found")
            /\ UNCHANGED <<strategy, config>>

HandleRequest(req) ==
    /\ IF ~UrlParses(req.path)
       THEN /\ resp' = Escaped
            /\ UNCHANGED <<strategy, config>>
       ELSE IF ensureAuthorized(req)
       THEN Route(req)
       ELSE /\ resp' = Rejected(req)
            /\ UNCHANGED <<strategy, config>>
    /\ last' = [op |-> "handleRequest",
                token |-> req.token,
                authorization |-> req.authorization,
                method |-> req.method,
                path |-> req.path,
                bodyKind |-> req.body.kind,
                root |-> (req.path = "/"),
                read |-> IsRead(req),
                stateBefore |-> IF req.path = "/api/state" /\ resp.kind = "state"
                                THEN [status |-> resp.status, strategy |-> resp.strategy,
                                      settings |-> resp.settings,
                                      lastLogId |-> resp.lastLogId]
                                ELSE NoResp,
                prev |-> [status |-> status, baseline |-> baseline,
                          strategy |-> strategy, config |-> config, logs |-> logs]]
    /\ UNCHANGED <<status, baseline, logs, nextLogId, maxLogs, startedAt, now, appended,
                   held, dashboardToken, client,
                   pending, completed, launcher>>

-----------------------------------------------------------------------------
(* POST requests whose body arrives in chunks *)

\* The data events of a body that is not empty
BodyChunks == 2

\* The POST requests that wait for their body at the same time, and all that
\* are sent
MaxInFlight == 2
MaxPosts == 3

\* The POST requests to the two routes that read a body: text that is no
\* JSON, and the patches of the route
Posts ==
    {post \in [path : {"/api/strategy", "/api/settings"}, body : Bodies] :
        \/ post.body.kind = "invalid"
        \/ /\ post.path = "/api/strategy"
           /\ post.body.strategy \notin {NoStrategy, NonObjectPatch}
        \/ /\ post.path = "/api/settings"
           /\ post.body.settings # NoSettings}

ChunksOf(body) == IF body.kind = "empty" THEN 0 ELSE BodyChunks

\* A data event applies the mode of the patch at once
AfterChunkAppliesMode(s, post) ==
    IF post.path = "/api/strategy" /\ post.body.kind = "json"
    THEN AfterMode(s, post.body.strategy)
    ELSE s

\* req.on('data', c => chunks.push(c)): the strategy after a data event
AfterChunk(s, post) == s

\* handleRequest for a POST to /api/strategy or /api/settings: readJsonBody
\* registers its listeners and the handler returns
PostArrives(post) ==
    /\ Len(pending) < MaxInFlight
    /\ Len(pending) + Len(completed) < MaxPosts
    /\ pending' = Append(pending, [id |-> Len(pending) + Len(completed) + 1,
                                   path |-> post.path, body |-> post.body, got |-> 0])
    /\ resp' = NoResp
    /\ last' = [op |-> "postArrives"]
    /\ UNCHANGED <<status, baseline, strategy, logs, nextLogId, maxLogs, config, startedAt,
                   now, appended, held, dashboardToken, client, completed, launcher>>

\* A data event of the i-th waiting request
BodyChunk(i) ==
    /\ pending[i].got < ChunksOf(pending[i].body)
    /\ pending' = [pending EXCEPT ![i].got = @ + 1]
    /\ strategy' = AfterChunk(strategy, pending[i])
    /\ resp' = NoResp
    /\ last' = [op |-> "bodyChunk"]
    /\ UNCHANGED <<status, baseline, logs, nextLogId, maxLogs, config, startedAt, now,
                   appended, held, dashboardToken, client, completed, launcher>>

\* The end event of the i-th waiting request, and the then or catch callback
\* of its promise, which runs before any other event is handled
BodyEnd(i) ==
    /\ pending[i].got = ChunksOf(pending[i].body)
    /\ LET post == pending[i]
       IN  /\ IF post.path = "/api/strategy"
              THEN /\ IF BodyRejected(post.body)
                      THEN /\ resp' = JsonError(400, "invalid_json")
                           /\ UNCHANGED strategy
                      ELSE /\ strategy' = UpdatedStrategy(strategy, post.body.strategy)
                           /\ resp' = [kind |-> "strategy", code |-> 200,
                                       value |-> getStrategyConfig']
                   /\ UNCHANGED config
              ELSE /\ IF BodyRejected(post.body)
                      THEN /\ resp' = JsonError(400, "invalid_json")
                           /\ UNCHANGED config
                      ELSE IF SettingsError(post.body.settings) # ""
                      THEN /\ resp' = JsonError(400, SettingsError(post.body.settings))
                           /\ UNCHANGED config
                      ELSE /\ config' = ConfigAfter(config, post.body.settings)
                           /\ resp' = [kind |-> "settings", code |-> 200,
                                       value |-> NextSettingsOf(post.body.settings)]
                   /\ UNCHANGED strategy
           /\ completed' = Append(completed, [id |-> post.id, path |-> post.path,
                                              body |-> post.body])
           /\ pending' = SubSeq(pending, 1, i - 1) \o SubSeq(pending, i + 1, Len(pending))
           /\ last' = [op |-> "bodyEnd", id |-> post.id]
    /\ UNCHANGED <<status, baseline, logs, nextLogId, maxLogs, startedAt, now, appended,
                   held, dashboardToken, client, launcher>>

-----------------------------------------------------------------------------
(* The static files of /calc *)

\* A string is a sequence of pieces: the separators and the dot one character
\* each, "calc" and "FarmCalc" the words the code compares with, "X" any
\* other text
UrlTokens == {"/", ".", "\\", "calc", "FarmCalc", "X"}

MaxUrlLen == 6

\* The request targets: an absolute path; a target that begins with two
\* separators names a host and is none
Urls ==
    {u \in UNION {[1 .. n -> UrlTokens] : n \in 1 .. MaxUrlLen} :
        /\ u[1] = "/"
        /\ Len(u) > 1 => u[2] \notin {"/", "\\"}}

\* s.startsWith(p)
StartsWith(s, p) == Len(s) >= Len(p) /\ SubSeq(s, 1, Len(p)) = p

\* s.replace(/\\/g, '/')
ReplaceBackslash(s) == [i \in 1 .. Len(s) |-> IF s[i] = "\\" THEN "/" ELSE s[i]]

\* s.split('/')
RECURSIVE Split(_)
Split(s) ==
    IF s = <<>> THEN << <<>> >>
    ELSE LET r == Split(Tail(s))
         IN  IF Head(s) = "/" THEN << <<>> >> \o r
             ELSE << <<Head(s)>> \o Head(r) >> \o Tail(r)

\* segs.join('/')
RECURSIVE Join(_)
Join(segs) ==
    IF segs = <<>> THEN <<>>
    ELSE Head(segs) \o (IF Len(segs) > 1 THEN <<"/">> \o Join(Tail(segs)) ELSE <<>>)

DropLast(segs) == IF segs = <<>> THEN <<>> ELSE SubSeq(segs, 1, Len(segs) - 1)

\* The path of new URL(target, 'http://127.0.0.1'): a backslash is a
\* separator, "." and ".." segments are resolved, and a path that ends with
\* one of them ends with a separator
RECURSIVE UrlSegments(_, _)
UrlSegments(segs, acc) ==
    IF segs = <<>> THEN acc
    ELSE LET seg == Head(segs)
             closing == IF Len(segs) = 1 THEN << <<>> >> ELSE <<>>
         IN  IF seg = <<".", ".">> THEN UrlSegments(Tail(segs), DropLast(acc) \o closing)
             ELSE IF seg = <<".">> THEN UrlSegments(Tail(segs), acc \o closing)
             ELSE UrlSegments(Tail(segs), acc \o <<seg>>)

\* parsed.pathname
Pathname(url) == <<"/">> \o Join(UrlSegments(Tail(Split(ReplaceBackslash(url))), <<>>))

\* The normalisation of path.resolve: empty and "." segments are dropped, ".."
\* removes the segment before it and stays at the root
RECURSIVE Normalize(_, _)
Normalize(segs, acc) ==
    IF segs = <<>> THEN acc
    ELSE LET seg == Head(segs)
         IN  IF seg = <<>> \/ seg = <<".">> THEN Normalize(Tail(segs), acc)
             ELSE IF seg = <<".", ".">> THEN Normalize(Tail(segs), DropLast(acc))
             ELSE Normalize(Tail(segs), acc \o <<seg>>)

\* path.resolve(root, rel) for an absolute root and a relative rel
PathResolve(root, rel) == <<"/">> \o Join(Normalize(Split(root \o <<"/">> \o rel), <<>>))

\* path.join(process.cwd(), 'FarmCalc')
FARM_CALC_ROOT == <<"/", "cwd", "/", "FarmCalc">>

\* return null
NoFile == <<>>

\* The test of the resolved path that asks for the root or a path below it
InsideRoot(abs) ==
    \/ abs = PathResolve(FARM_CALC_ROOT, <<>>)
    \/ StartsWith(abs, PathResolve(FARM_CALC_ROOT, <<>>) \o <<"/">>)

resolveFarmCalcFile(requestPath) ==
    IF ~StartsWith(requestPath, <<"/", "calc">>) THEN NoFile
    ELSE LET relRaw == IF requestPath \in {<<"/", "calc">>, <<"/", "calc", "/">>}
                       THEN <<"/", "index.html">>
                       ELSE SubSeq(requestPath, 3, Len(requestPath))
             relSafe == ReplaceBackslash(relRaw)
             abs == PathResolve(FARM_CALC_ROOT, <<".">> \o relSafe)
         IN  IF ~StartsWith(abs, PathResolve(FARM_CALC_ROOT, <<>>)) THEN NoFile ELSE abs

\* serveFile(res, absPath): 404 unless the path exists and is a file
serveFile(absPath) ==
    {[kind |-> "file", code |-> 200, abs |-> absPath], JsonError(404, "Not Found")}

\* handleRequest for a target made of these pieces, on a dashboard without
\* secret: the /calc branch, the page at /, and 404 for every other path
CalcRequest ==
    /\ last.op = "incoming"
    /\ LET pathname == Pathname(last.url)
           target == resolveFarmCalcFile(pathname)
       IN  /\ resp' \in IF StartsWith(pathname, <<"/", "calc">>)
                         THEN IF target = NoFile THEN {JsonError(404, "Not Found")}
                              ELSE serveFile(target)
                         ELSE IF pathname = <<"/">> THEN {[kind |-> "html", code |-> 200]}
                         ELSE {JsonError(404, "Not Found")}
           /\ last' = [op |-> "calcRequest", url |-> last.url, pathname |-> pathname,
                       target |-> target]
    /\ UNCHANGED <<status, baseline, strategy, logs, nextLogId, maxLogs, config, startedAt,
                   now, appended, held, dashboardToken, client,
                   pending, completed, launcher>>

-----------------------------------------------------------------------------
(* The launcher, index.js *)

\* The arguments given on the command line: at most this many
MaxUserArgs == 2

UserArgs ==
    UNION {[1 .. n -> {"--code", "--qr", "--decode", "--verify", "--wx", "abc"}] :
              n \in 0 .. MaxUserArgs}

\* The environment variables buildArgs reads; "" is a variable that is not set
Envs ==
    [PLATFORM : {"", "wx", "WX"}, WX : {"", "1"}, QR_LOGIN : {"", "true"},
     QQ_CODE : {"", "abc"}, WX_CODE : {"", "xyz"}, CODE : {"", "c"},
     FARM_INTERVAL : {"", "5"}, FRIEND_INTERVAL : {"", "9"}]

\* value === '1' || value === 'true'
toBool(value) == value = "1" \/ value = "true"

\* String.prototype.toLowerCase on the values of PLATFORM
ToLowerCase(str) == IF str = "WX" THEN "wx" ELSE str

\* a || b for strings
StrOr(a, b) == IF a # "" THEN a ELSE b

\* args.includes(name)
hasArg(args, name) == \E i \in 1 .. Len(args) : args[i] = name

buildArgs(userArgs, env) ==
    LET first == <<"client.js">>
        platform == ToLowerCase(StrOr(env.PLATFORM, "qq"))
        isWx == platform = "wx" \/ toBool(env.WX)
        qrLogin == toBool(env.QR_LOGIN)
        code == IF isWx THEN StrOr(env.WX_CODE, env.CODE) ELSE StrOr(env.QQ_CODE, env.CODE)
    IN  IF Len(userArgs) > 0 THEN first \o userArgs
        ELSE first
             \o (IF isWx THEN <<"--wx">> ELSE <<>>)
             \o (IF qrLogin /\ ~isWx THEN <<"--qr">> ELSE <<>>)
             \o (IF code # "" THEN <<"--code", code>> ELSE <<>>)
             \o (IF env.FARM_INTERVAL # "" THEN <<"--interval", env.FARM_INTERVAL>>
                  ELSE <<>>)
             \o (IF env.FRIEND_INTERVAL # ""
                  THEN <<"--friend-interval", env.FRIEND_INTERVAL>> ELSE <<>>)

\* Whether validateArgs returns; it calls process.exit(1) otherwise
validateArgs(args) ==
    \/ hasArg(args, "--code")
    \/ hasArg(args, "--qr")
    \/ hasArg(args, "--decode") \/ hasArg(args, "--verify")

\* The ways a process ends: process.exit(code), or killed by a signal
Exited(code) == [kind |-> "exit", code |-> code, signal |-> ""]
Killed(signal) == [kind |-> "signal", code |-> 0, signal |-> signal]
Running == [kind |-> "running", code |-> 0, signal |-> ""]

\* The signals the launcher has installed a listener for
HandledSignals == {"SIGINT", "SIGTERM"}

\* The top level of index.js up to the installation of the listeners:
\* buildArgs, validateArgs, spawn
Launch ==
    /\ launcher.phase = "start"
    /\ LET args == buildArgs(launcher.userArgs, launcher.env)
       IN  launcher' = IF validateArgs(args)
                       THEN [launcher EXCEPT !.phase = "running", !.args = args,
                                             !.spawned = TRUE]
                       ELSE [launcher EXCEPT !.phase = "ended", !.args = args,
                                             !.end = Exited(1)]
    /\ resp' = NoResp
    /\ last' = [op |-> "launch"]
    /\ UNCHANGED <<status, baseline, strategy, logs, nextLogId, maxLogs, config, startedAt,
                   now, appended, held, dashboardToken, client, pending, completed>>

\* The launcher receives SIGINT or SIGTERM while the child runs: its listener
\* calls child.kill with the same signal, and the launcher runs on
ForwardSignal(signal) ==
    /\ launcher.phase = "running"
    /\ launcher' = [launcher EXCEPT !.forwarded = @ \cup {signal}]
    /\ resp' = NoResp
    /\ last' = [op |-> "forwardSignal"]
    /\ UNCHANGED <<status, baseline, strategy, logs, nextLogId, maxLogs, config, startedAt,
                   now, appended, held, dashboardToken, client, pending, completed>>

\* process.kill(process.pid, signal) in the launcher: a signal without
\* listener ends the process; for SIGINT and SIGTERM the listener runs in the
\* place of the default action, child.kill finds no child, and the launcher
\* ends when nothing is left to wait for, as process.exit(0) would
KillSelf(signal) == IF signal \in HandledSignals THEN Exited(0) ELSE Killed(signal)

\* The child ends and the listener of its exit event runs. The child ends
\* with a code, or by a signal: SIGKILL and SIGHUP at any time, SIGINT and
\* SIGTERM also when the launcher has forwarded them
ChildExit(childEnd) ==
    /\ launcher.phase = "running"
    /\ launcher' = [launcher EXCEPT
                       !.phase = "ended",
                       !.child = childEnd,
                       !.end = IF childEnd.kind = "signal" THEN KillSelf(childEnd.signal)
                               ELSE Exited(childEnd.code)]
    /\ resp' = NoResp
    /\ last' = [op |-> "childExit"]
    /\ UNCHANGED <<status, baseline, strategy, logs, nextLogId, maxLogs, config, startedAt,
                   now, appended, held, dashboardToken, client, pending, completed>>

\* The ends of the child: the codes 0, 1 and 2, and a signal with or without
\* listener in the launcher
ChildEnds ==
    {Exited(code) : code \in {0, 1, 2}}
    \cup {Killed(signal) : signal \in HandledSignals \cup {"SIGKILL", "SIGHUP"}}

-----------------------------------------------------------------------------
(* Specifications *)

Init ==
    /\ status = InitStatus
    /\ baseline = InitBaseline
    /\ strategy = InitStrategy
    /\ logs = <<>>
    /\ nextLogId = 1
    /\ maxLogs = DEFAULT_MAX_LOGS
    /\ config = InitConfig
    /\ startedAt = StartTime
    /\ now = StartTime
    /\ resp = NoResp
    /\ last = NoOp
    /\ appended = <<>>
    /\ held = NoHeld
    /\ dashboardToken = ""
    /\ client = InitClient
    /\ pending = <<>>
    /\ completed = <<>>
    /\ launcher = NoLauncher

NextStatus == \E p \in Partials : UpdateStatus(p)

SpecStatus == Init /\ [][NextStatus]_vars

\* The status updates the metrics are computed after: a login, a logout and
\* every exp and gold
MetricsPartials == {p \in ObjectPartials : p.has \subseteq {"name", "gold", "exp"}}

NextMetrics ==
    \/ \E p \in MetricsPartials : UpdateStatus(p)
    \/ \E d \in TickSteps : Tick(d)
    \/ \E progress \in ProgressVals : ApiState(progress)

SpecMetrics == Init /\ [][NextMetrics]_vars

\* MAX_LOGS is Math.max(0, Number(process.env.DASHBOARD_MAX_LOGS || 120)):
\* any capacity from 0 on
InitLogs ==
    /\ status = InitStatus
    /\ baseline = InitBaseline
    /\ strategy = InitStrategy
    /\ logs = <<>>
    /\ nextLogId = 1
    /\ maxLogs \in 0 .. MaxCapacity
    /\ config = InitConfig
    /\ startedAt = StartTime
    /\ now = StartTime
    /\ resp = NoResp
    /\ last = NoOp
    /\ appended = <<>>
    /\ held = NoHeld
    /\ dashboardToken = ""
    /\ client = InitClient
    /\ pending = <<>>
    /\ completed = <<>>
    /\ launcher = NoLauncher

NextLogs ==
    \/ \E in \in LogInputs : AddLog(in)
    \/ \E param \in SinceParams : ApiLogs(param)

SpecLogs == InitLogs /\ [][NextLogs]_vars

\* A buffer that holds at least one entry, as a polling client needs
InitPoll ==
    /\ status = InitStatus
    /\ baseline = InitBaseline
    /\ strategy = InitStrategy
    /\ logs = <<>>
    /\ nextLogId = 1
    /\ maxLogs \in 1 .. MaxCapacity
    /\ config = InitConfig
    /\ startedAt = StartTime
    /\ now = StartTime
    /\ resp = NoResp
    /\ last = NoOp
    /\ appended = <<>>
    /\ held = NoHeld
    /\ dashboardToken = ""
    /\ client = InitClient
    /\ pending = <<>>
    /\ completed = <<>>
    /\ launcher = NoLauncher

NextPoll ==
    \/ \E in \in LogInputs : AddLog(in)
    \/ PollLogs

SpecPoll == InitPoll /\ [][NextPoll]_vars

NextStrategy ==
    \/ \E patch \in StrategyPatches : UpdateStrategyConfig(patch)
    \/ \E decision \in Decisions : RecordStrategyDecision(decision)
    \/ \E d \in StrategyTickSteps : Tick(d)

SpecStrategy == Init /\ [][NextStrategy]_vars

\* The patches sent while a caller holds a returned configuration
SnapshotPatches ==
    {patch \in ObjectPatches :
        /\ patch.mode = ""
        /\ patch.manualSeedId \in {Undefined, Num(7)}
        /\ patch.manualSeedName = "X"}

NextSnapshot ==
    \/ GetStrategyConfig
    \/ \E field \in Mutations : MutateReturned(field)
    \/ \E decision \in Decisions : RecordStrategyDecision(decision)
    \/ \E patch \in SnapshotPatches : UpdateStrategyConfig(patch)

SpecSnapshot == Init /\ [][NextSnapshot]_vars

\* The requests that read, on a dashboard without secret
ReadRequests ==
    {req \in Requests :
        IsRead(req) /\ req.token = "" /\ req.authorization.scheme = ""}

\* The status updates made while the dashboard is read: a login and an exp
ReadsPartials ==
    {p \in ObjectPartials :
        \/ p.has = {"name"} /\ p.name = "A"
        \/ p.has = {"exp"} /\ p.exp = Num(50)}

\* The dashboard is read while the game client writes
NextReads ==
    \/ \E req \in ReadRequests : HandleRequest(req)
    \/ \E in \in LogInputs : AddLog(in)
    \/ \E p \in ReadsPartials : UpdateStatus(p)
    \/ \E patch \in SnapshotPatches : UpdateStrategyConfig(patch)

SpecReads == Init /\ [][NextReads]_vars

\* The requests to a dashboard without secret: no credentials
RouteRequests ==
    {req \in Requests : req.token = "" /\ req.authorization.scheme = ""}

NextRoutes == \E req \in RouteRequests : HandleRequest(req)

SpecRoutes == Init /\ [][NextRoutes]_vars

\* The requests to a dashboard without secret, and a GET whose target is "//"
NextErrors ==
    \/ \E req \in RouteRequests : HandleRequest(req)
    \/ HandleRequest([path |-> "//", method |-> "GET", token |-> "",
                      authorization |-> [scheme |-> "", value |-> "", padded |-> FALSE],
                      body |-> [kind |-> "empty", settings |-> NoSettings,
                                strategy |-> NoStrategy]])

SpecErrors == Init /\ [][NextErrors]_vars

\* While bodies arrive, GET /api/strategy and GET /api/settings are sent and
\* the game client logs in and writes a log entry
NextPosts ==
    \/ \E post \in Posts : PostArrives(post)
    \/ \E i \in 1 .. Len(pending) : BodyChunk(i)
    \/ \E i \in 1 .. Len(pending) : BodyEnd(i)
    \/ \E req \in {r \in ReadRequests :
                     r.method = "GET" /\ r.path \in {"/api/strategy", "/api/settings"}} :
          HandleRequest(req)
    \/ \E p \in {q \in ReadsPartials : q.has = {"name"}} : UpdateStatus(p)
    \/ \E in \in {l \in LogInputs : l.level = "INFO"} : AddLog(in)

SpecPosts == Init /\ [][NextPosts]_vars

\* The launcher is started with some arguments in some environment
InitLauncher ==
    /\ status = InitStatus
    /\ baseline = InitBaseline
    /\ strategy = InitStrategy
    /\ logs = <<>>
    /\ nextLogId = 1
    /\ maxLogs = DEFAULT_MAX_LOGS
    /\ config = InitConfig
    /\ startedAt = StartTime
    /\ now = StartTime
    /\ resp = NoResp
    /\ last = NoOp
    /\ appended = <<>>
    /\ held = NoHeld
    /\ dashboardToken = ""
    /\ client = InitClient
    /\ pending = <<>>
    /\ completed = <<>>
    /\ launcher \in [phase : {"start"}, userArgs : UserArgs, env : Envs, args : {<<>>},
                      spawned : {FALSE}, forwarded : {{}}, child : {Running},
                      end : {Running}]

NextLauncher ==
    \/ Launch
    \/ \E signal \in HandledSignals : ForwardSignal(signal)
    \/ \E childEnd \in ChildEnds : ChildExit(childEnd)

SpecLauncher == InitLauncher /\ [][NextLauncher]_vars

\* A request target arrives at a dashboard without secret
InitCalc ==
    /\ status = InitStatus
    /\ baseline = InitBaseline
    /\ strategy = InitStrategy
    /\ logs = <<>>
    /\ nextLogId = 1
    /\ maxLogs = DEFAULT_MAX_LOGS
    /\ config = InitConfig
    /\ startedAt = StartTime
    /\ now = StartTime
    /\ resp = NoResp
    /\ last \in {[op |-> "incoming", url |-> u] : u \in Urls}
    /\ appended = <<>>
    /\ held = NoHeld
    /\ dashboardToken = ""
    /\ client = InitClient
    /\ pending = <<>>
    /\ completed = <<>>
    /\ launcher = NoLauncher

NextCalc == CalcRequest

SpecCalc == InitCalc /\ [][NextCalc]_vars

\* The intervals the shared configuration holds when the dashboard starts, in
\* milliseconds: whole seconds or not
ConfigVals == {Num(400), Num(1000), Num(2500)}

InitSettings ==
    /\ status = InitStatus
    /\ baseline = InitBaseline
    /\ strategy = InitStrategy
    /\ logs = <<>>
    /\ nextLogId = 1
    /\ maxLogs = DEFAULT_MAX_LOGS
    /\ config \in [farmCheckInterval : ConfigVals, friendCheckInterval : ConfigVals]
    /\ startedAt = StartTime
    /\ now = StartTime
    /\ resp = NoResp
    /\ last = NoOp
    /\ appended = <<>>
    /\ held = NoHeld
    /\ dashboardToken = ""
    /\ client = InitClient
    /\ pending = <<>>
    /\ completed = <<>>
    /\ launcher = NoLauncher

NextSettings == \E patch \in SettingsPatches : UpdateRuntimeSettings(patch)

SpecSettings == InitSettings /\ [][NextSettings]_vars

\* DASHBOARD_TOKEN is process.env.DASHBOARD_TOKEN || '': no secret, or one
InitHttp ==
    /\ status = InitStatus
    /\ baseline = InitBaseline
    /\ strategy = InitStrategy
    /\ logs = <<>>
    /\ nextLogId = 1
    /\ maxLogs = DEFAULT_MAX_LOGS
    /\ config = InitConfig
    /\ startedAt = StartTime
    /\ now = StartTime
    /\ resp = NoResp
    /\ last = NoOp
    /\ appended = <<>>
    /\ held = NoHeld
    /\ dashboardToken \in {"", Secret}
    /\ client = InitClient
    /\ pending = <<>>
    /\ completed = <<>>
    /\ launcher = NoLauncher

\* The requests sent with and without credentials: GET and POST, a body goes
\* to one of the two routes that read it
HttpRequests ==
    {req \in Requests :
        /\ req.method \in {"GET", "POST"}
        /\ req.body.kind # "empty" => req.path \in {"/api/settings", "/api/strategy"}}

NextHttp == \E req \in HttpRequests : HandleRequest(req)

SpecHttp == InitHttp /\ [][NextHttp]_vars

-----------------------------------------------------------------------------
(* Properties of updateStatus and buildMetrics *)

\* The gains buildMetrics reports in the current state: they depend neither on
\* the uptime nor on the level progress
Gains(pr) ==
    [exp |-> buildMetrics(UptimeSec, pr).expGain, gold |-> buildMetrics(UptimeSec, pr).goldGain]

ZeroGains == [exp |-> Num(0), gold |-> Num(0)]

\* C1: in every state updateStatus calls lead to, a ready baseline has a gold
\* and an exp that are not null and a key that is not the empty string.
C1_ReadyBaselineIsComplete ==
    baseline.ready => baseline.gold # Null /\ baseline.exp # Null /\ baseline.key # ""

\* C1 witness: a call has invalidated a ready baseline and anchored a new one.
C1_Witness ==
    /\ last.op = "updateStatus" /\ last.applied
    /\ last.invalidated /\ last.anchored /\ baseline.ready

\* C2 as stated: after a call that met a ready baseline with a login-ready
\* snapshot of another identity, the baseline is ready, keyed to the new
\* identity, holds the snapshot's gold and exp (as numbers), and the gains are
\* zero.
C2_Original ==
    (last.op = "updateStatus" /\ last.applied /\ last.rotated) =>
        /\ baseline.ready
        /\ baseline.key = IdentityKey(status)
        /\ baseline.gold = NumberOr(status.gold, 0)
        /\ baseline.exp = NumberOr(status.exp, 0)
        /\ \A pr \in ProgressVals : Gains(pr) = ZeroGains

\* C2 amended: the same, for a merged snapshot whose exp and gold are not
\* infinite and a call that changed the name or the platform or left a finite
\* exp or gold in the snapshot; and in every case the call never leaves a ready
\* baseline keyed to another identity than the snapshot's.
C2_RotationReanchors ==
    (last.op = "updateStatus" /\ last.applied /\ last.rotated) =>
        /\ ~(baseline.ready /\ baseline.key # IdentityKey(status))
        /\ (/\ status.exp # PosInf /\ status.gold # PosInf
            /\ (last.identityChanged \/ IsFinite(status.exp) \/ IsFinite(status.gold))) =>
              /\ baseline.ready
              /\ baseline.key = IdentityKey(status)
              /\ baseline.gold = NumberOr(status.gold, 0)
              /\ baseline.exp = NumberOr(status.exp, 0)
              /\ \A pr \in ProgressVals : Gains(pr) = ZeroGains

\* C2 witness: a rotation to a snapshot with exp 50 and gold 30 has happened.
C2_Witness ==
    /\ last.op = "updateStatus" /\ last.applied /\ last.rotated
    /\ status.exp = Num(50) /\ status.gold = Num(30)
    /\ baseline.ready

\* C3: after a call that met a ready baseline and kept the IdentityKey, the
\* baseline is what it was before the call, and the gains are the current exp
\* and gold (as numbers) minus the anchored ones.
C3_AnchoredBaselineKept ==
    (last.op = "updateStatus" /\ last.applied /\ last.prevReady /\ last.keyKept) =>
        /\ last.baselineKept
        /\ baseline.ready
        /\ \A pr \in ProgressVals :
              Gains(pr) = [exp |-> JSub(NumberOr(status.exp, 0), baseline.exp),
                           gold |-> JSub(NumberOr(status.gold, 0), baseline.gold)]

\* C3 witness: an update that kept the identity of a ready baseline anchored at
\* exp 0 and gold 0 has brought exp 50 and gold 30.
C3_Witness ==
    /\ last.op = "updateStatus" /\ last.applied
    /\ last.prevReady /\ last.keyKept /\ LoginReady(status)
    /\ baseline.ready /\ baseline.exp = Num(0) /\ baseline.gold = Num(0)
    /\ Gains([current |-> Num(0), needed |-> Num(100)]) = [exp |-> Num(50), gold |-> Num(30)]

\* C4 as stated: a call anchors a baseline only if the snapshot is login-ready
\* and the call changed the name or the platform or its argument carried a
\* finite exp or a finite gold.
C4_AnchorsOnlyOnIdentityOrCarriedNumbers ==
    (last.op = "updateStatus" /\ last.applied /\ last.anchored) =>
        /\ LoginReady(status)
        /\ (last.identityChanged \/ last.carriesFinite)

\* C5 as stated: the metrics of a state whose baseline is not ready have
\* expGain 0 and goldGain 0.
C5_NoBaselineNoGain ==
    (resp.kind = "state" /\ ~baseline.ready) =>
        resp.metrics.expGain = Num(0) /\ resp.metrics.goldGain = Num(0)

\* C6: below 120 seconds of uptime the metrics have rateReady false and both
\* hourly rates 0; from 120 seconds on rateReady is true.
C6_RateGating ==
    resp.kind = "state" =>
        /\ resp.uptimeSec < 120 =>
              /\ resp.metrics.rateReady = FALSE
              /\ resp.metrics.expPerHour = Num(0)
              /\ resp.metrics.goldPerHour = Num(0)
        /\ resp.uptimeSec >= 120 => resp.metrics.rateReady = TRUE

\* C6 witness: metrics computed at 119 seconds of uptime with a gain of 50 exp.
C6_Witness ==
    /\ resp.kind = "state" /\ resp.uptimeSec = 119
    /\ resp.metrics.expGain = Num(50)
    /\ resp.metrics.expPerHour = Num(0)

-----------------------------------------------------------------------------
(* Properties of the log buffer *)

Min(a, b) == IF a < b THEN a ELSE b

\* The last n elements of a sequence
LastN(sq, n) == SubSeq(sq, Len(sq) - n + 1, Len(sq))

\* C7: the buffer holds at most MAX_LOGS entries, which are the most recently
\* appended min(n, MAX_LOGS) entries in ascending id order; with MAX_LOGS = 0
\* it stays empty and the reported lastLogId stays 0.
C7_BufferIsBoundedSuffix ==
    /\ Len(logs) <= maxLogs
    /\ logs = LastN(appended, Min(Len(appended), maxLogs))
    /\ \A i, j \in 1 .. Len(logs) : i < j => logs[i].id < logs[j].id
    /\ maxLogs = 0 => logs = <<>> /\ LastLogId = 0
    /\ resp.kind = "logs" /\ maxLogs = 0 => resp.lastLogId = 0

\* C7 witness: with MAX_LOGS = 3, five entries were appended and three remain.
C7_Witness ==
    /\ maxLogs = 3 /\ Len(appended) = 5 /\ Len(logs) = 3
    /\ last.op = "addLog"
    /\ logs[1].id = 3 /\ logs[3].id = 5

\* C8: the first id assigned is 1 and every entry appended later has a greater
\* id than every entry appended before it, evicted or not.
C8_IdsIncreaseNeverReused ==
    /\ Len(appended) > 0 => appended[1].id = 1
    /\ \A i, j \in 1 .. Len(appended) : i < j => appended[i].id < appended[j].id

\* C8 witness: an id was assigned after an entry had been evicted.
C8_Witness ==
    /\ last.op = "addLog" /\ maxLogs >= 1
    /\ Len(appended) > maxLogs + 1
    /\ logs[Len(logs)].id = Len(appended)

\* Whether out is the buffer's entries with id > lastId, in the buffer's order:
\* the buffer's ids ascend, so it is the suffix that leaves out exactly the
\* entries with id <= lastId
IsEntriesAfter(out, lastId) ==
    /\ Len(out) <= Len(logs)
    /\ out = LastN(logs, Len(out))
    /\ \A i \in 1 .. Len(out) : out[i].id > lastId
    /\ \A i \in 1 .. Len(logs) - Len(out) : logs[i].id <= lastId

\* C9: getLogsSince(lastId) returns the buffered entries with id > lastId in
\* insertion order and leaves the buffer as it was; for lastId 0, negative or
\* not finite it returns the whole buffer.
C9_LogsSince ==
    (last.op = "apiLogs") =>
        /\ logs = last.logsBefore
        /\ IF IsFinite(last.since) /\ last.since.n > 0
           THEN IsEntriesAfter(resp.logs, last.since.n)
           ELSE resp.logs = logs

\* C9 witness: a query with since = 4 on a buffer holding the ids 3, 4 and 5
\* returned the entry 5 alone.
C9_Witness ==
    /\ last.op = "apiLogs" /\ last.since = Num(4)
    /\ Len(logs) = 3 /\ logs[1].id = 3
    /\ Len(resp.logs) = 1 /\ resp.logs[1].id = 5

\* The entries a sequence of log entries holds
Entries(ls) == {ls[i] : i \in 1 .. Len(ls)}

\* C30: for a client that polls /api/logs with since = the lastLogId of its
\* previous response (0 at first), under every interleaving of addLog calls
\* with MAX_LOGS >= 1: all the entries it has received, in the order received,
\* have strictly ascending ids (none is returned twice, each response is in
\* ascending order); the reported lastLogId never decreases; and when at
\* most MAX_LOGS entries were appended since the previous poll (since the
\* start for the first), the response holds every one of them.
C30_PollingSeesEachEntryOnce ==
    /\ \A i \in 1 .. Len(client.received) - 1 :
          client.received[i].id < client.received[i + 1].id
    /\ (last.op = "pollLogs") =>
          /\ resp.lastLogId >= last.since
          /\ client.since = resp.lastLogId
          /\ (Len(appended) - last.appendedAtPoll <= maxLogs) =>
                \A i \in last.appendedAtPoll + 1 .. Len(appended) :
                    appended[i] \in Entries(resp.logs)

\* C30 witness: with a buffer of 2, the client received the entries 1 and 2,
\* and after two more were appended its next poll returned 3 and 4 alone.
C30_Witness ==
    /\ last.op = "pollLogs" /\ maxLogs = 2
    /\ last.since = 2 /\ last.appendedAtPoll = 2
    /\ Len(resp.logs) = 2 /\ resp.logs[1].id = 3
    /\ Len(client.received) = 4

-----------------------------------------------------------------------------
(* Properties of the strategy store *)

\* C10: in every state updateStrategyConfig and recordStrategyDecision calls
\* lead to, manualSeedId > 0 implies source = 'manual'.
C10_PinnedSeedIsManual ==
    strategy.manualSeedId > 0 => strategy.source = "manual"

\* C10 witness: a seed is pinned after a decision was recorded and the pinned
\* seed was replaced by another.
C10_Witness ==
    /\ last.op = "updateStrategyConfig"
    /\ strategy.manualSeedId = 9 /\ strategy.manualSeedName = "X"
    /\ strategy.source = "manual"
    /\ strategy.lastDecision # Null

\* C31: in every state updateStrategyConfig calls lead to, source = 'manual'
\* implies manualSeedId > 0, also after a patch that sets manualSeedId to 0 or
\* to a value that is no number without clearManual.
C31_ManualHasPinnedSeed ==
    strategy.source = "manual" => strategy.manualSeedId > 0

\* What a call that only clears the manual override leaves, and what a call
\* that pins a seed leaves
ClearedOrPinned ==
    /\ last.clearOnly =>
          /\ strategy.manualSeedId = 0
          /\ strategy.manualSeedName = ""
          /\ strategy.source = "auto"
    /\ last.pinned > 0 =>
          /\ strategy.source = "manual"
          /\ strategy.manualSeedId = last.pinned

\* C11: from any strategy state, updateStrategyConfig with clearManual true
\* and no manualSeedId leaves manualSeedId = 0, manualSeedName = '' and
\* source = 'auto'; updateStrategyConfig with manualSeedId > 0 leaves
\* source = 'manual' and manualSeedId equal to the given id.
C11_ClearAndPin ==
    (last.op = "updateStrategyConfig") => ClearedOrPinned

\* C11 witness: a pinned seed was cleared by a patch with clearManual alone.
C11_Witness ==
    /\ last.op = "updateStrategyConfig" /\ last.clearOnly
    /\ last.prevSeedId = 7
    /\ strategy.manualSeedId = 0 /\ strategy.source = "auto"

\* C12: every call of updateStrategyConfig, whatever its argument, sets
\* updatedAt to the time of the call.
C12_EveryCallRefreshesUpdatedAt ==
    (last.op = "updateStrategyConfig") => strategy.updatedAt = now

\* C13: strategy.mode is always 'normalFert' or 'noFert'; a patch whose mode
\* is any other value leaves mode unchanged, raises no error (the call
\* returns the configuration) and still has clearManual, manualSeedId and
\* manualSeedName applied.
C13_OtherModeIgnored ==
    /\ strategy.mode \in {"normalFert", "noFert"}
    /\ (last.op = "updateStrategyConfig" /\ last.otherMode) =>
          /\ strategy.mode = last.prevMode
          /\ resp.kind = "strategy" /\ resp.value.mode = last.prevMode
          /\ ClearedOrPinned
          /\ last.pinnedName # "" => strategy.manualSeedName = last.pinnedName

\* C13 witness: with the mode switched to noFert before, a patch with another
\* mode, seed 9 and name Y replaced the pinned seed 7 and kept noFert.
C13_Witness ==
    /\ last.op = "updateStrategyConfig" /\ last.otherMode
    /\ last.prevSeedId = 7 /\ last.pinned = 9 /\ last.pinnedName = "Y"
    /\ strategy.mode = "noFert" /\ strategy.manualSeedName = "Y"

\* C14: a caller that mutates the value returned by getStrategyConfig, in any
\* field including the lastDecision object it contains, does not change the
\* strategy state: getStrategyConfig returns after the mutation what it
\* returned before it.
C14_ReturnedValueIsDetached ==
    (last.op = "mutateReturned") => getStrategyConfig = last.before

\* C15: recordStrategyDecision replaces only lastDecision, by the decision it
\* is given, and leaves mode, manualSeedId, manualSeedName, source and
\* updatedAt unchanged; updateStrategyConfig, also with clearManual, leaves
\* lastDecision unchanged.
C15_DecisionSlotIsSeparate ==
    /\ (last.op = "recordStrategyDecision") =>
          /\ strategy.lastDecision # Null
          /\ last.decision # Null =>
                strategy.lastDecision.seedId = last.decision.seedId
          /\ [strategy EXCEPT !.lastDecision = last.prev.lastDecision] = last.prev
    /\ (last.op = "updateStrategyConfig") =>
          strategy.lastDecision = last.prevDecision

\* C15 witness: a clearManual patch removed the pinned seed 9 and the decision
\* recorded before it is still there.
C15_Witness ==
    /\ last.op = "updateStrategyConfig" /\ last.clearOnly
    /\ last.prevSeedId = 9
    /\ strategy.lastDecision # Null /\ strategy.lastDecision.seedId = 7
    /\ strategy.manualSeedId = 0

\* C27: a single updateStrategyConfig patch with both clearManual true and
\* manualSeedId > 0 ends with the manual override set: source = 'manual',
\* manualSeedId = the patch's id, and manualSeedName = the patch's
\* manualSeedName, or '' when the patch gives none; the name held before the
\* call is not kept.
C27_ClearThenPin ==
    (last.op = "updateStrategyConfig" /\ last.clearPinned) =>
        /\ strategy.source = "manual"
        /\ strategy.manualSeedId = last.pinned
        /\ strategy.manualSeedName = last.pinnedName

\* C27 witness: with the seed 7 pinned under the name X, a patch with
\* clearManual, the seed 9 and no name left the seed 9 without a name.
C27_Witness ==
    /\ last.op = "updateStrategyConfig" /\ last.clearPinned
    /\ last.prevSeedId = 7 /\ last.prevName = "X"
    /\ last.pinned = 9 /\ last.pinnedName = ""
    /\ strategy.manualSeedId = 9 /\ strategy.manualSeedName = ""

\* C29: after every updateStatus call, a login-ready snapshot and a ready
\* baseline have the same key: baseline.key is the snapshot's IdentityKey. A
\* ready baseline keyed to another identity coexists only with a snapshot
\* that is not login-ready.
C29_ReadyBaselineHasSnapshotKey ==
    (LoginReady(status) /\ baseline.ready) => baseline.key = IdentityKey(status)

\* C29 witness: the account changed from qq:A to wx:A in one call and the
\* baseline, ready before and after, is keyed to wx:A.
C29_Witness ==
    /\ last.op = "updateStatus" /\ last.applied /\ last.rotated /\ last.prevReady
    /\ baseline.ready /\ baseline.key = "wx:A"
    /\ LoginReady(status) /\ IdentityKey(status) = "wx:A"

-----------------------------------------------------------------------------
(* Properties of the level progress *)

\* C28: for every value the leveling-progress function returns for needed
\* (zero, negative, missing or non-numeric included), the metrics report
\* expNeeded >= 1 and an expProgress that is an integer in 0..100.
C28_NeededAtLeastOne ==
    (last.op = "apiState") =>
        /\ resp.metrics.expNeeded.k = "num" /\ resp.metrics.expNeeded.n >= 1
        /\ resp.metrics.expProgress.k = "num"
        /\ resp.metrics.expProgress.n \in 0 .. 100

-----------------------------------------------------------------------------
(* Properties of the runtime settings *)

\* A provided value that is not a finite number > 0
FailsValidation(v) == v # Undefined /\ v # Huge /\ ~(v.k = "tenths" /\ v.n > 0)

\* C16: an updateRuntimeSettings call with a provided field that is not a
\* finite number > 0 raises the error naming that field (the farm interval
\* first) and leaves both intervals of the shared configuration unchanged,
\* also when the other field of the patch was valid.
C16_FailedUpdateChangesNothing ==
    (last.op = "updateRuntimeSettings") =>
        /\ FailsValidation(last.patch.farmIntervalSec) =>
              /\ resp = [kind |-> "error", message |-> "invalid_farm_interval"]
              /\ config = last.prev
        /\ (~FailsValidation(last.patch.farmIntervalSec)
               /\ FailsValidation(last.patch.friendIntervalSec)) =>
              /\ resp = [kind |-> "error", message |-> "invalid_friend_interval"]
              /\ config = last.prev

\* C16 witness: after a successful update to 2 seconds each, a patch with the
\* valid farm interval 1e306 and the friend interval -1 failed.
C16_Witness ==
    /\ last.op = "updateRuntimeSettings"
    /\ last.patch = [farmIntervalSec |-> Huge, friendIntervalSec |-> Tenths(-10)]
    /\ resp.kind = "error"
    /\ config = [farmCheckInterval |-> Num(2000), friendCheckInterval |-> Num(2000)]

\* max(1, floor(v)) of a finite v > 0, as a number of seconds
FlooredSec(v) ==
    IF v.k = "tenths" THEN Num(IF v.n \div 10 < 1 THEN 1 ELSE v.n \div 10) ELSE v

\* What C17 says of one field after a successful update: v is the value the
\* patch provided, sec what getRuntimeSettings returns, ms what the shared
\* configuration holds
StoredFloored(v, sec, ms) ==
    (v # Undefined) =>
        /\ sec = FlooredSec(v)
        /\ sec.k = "num" /\ ms = Num(sec.n * 1000)

\* An integer >= 1
IsSeconds(sec) == sec.k = "num" /\ sec.n >= 1

\* C17: after a successful updateRuntimeSettings that provides a field with a
\* finite value v > 0, getRuntimeSettings returns max(1, floor(v)) for that
\* field and the shared configuration holds that many seconds in
\* milliseconds; getRuntimeSettings always returns integers >= 1.
C17_StoresFlooredSeconds ==
    /\ (last.op = "updateRuntimeSettings" /\ resp.kind = "settings") =>
          /\ StoredFloored(last.patch.farmIntervalSec,
                           getRuntimeSettings.farmIntervalSec, config.farmCheckInterval)
          /\ StoredFloored(last.patch.friendIntervalSec,
                           getRuntimeSettings.friendIntervalSec,
                           config.friendCheckInterval)
    /\ IsSeconds(getRuntimeSettings.farmIntervalSec)
    /\ IsSeconds(getRuntimeSettings.friendIntervalSec)

\* C18: updateRuntimeSettings with a patch that provides only one of
\* farmIntervalSec and friendIntervalSec leaves the other interval of the
\* shared configuration exactly as it was before the call.
C18_OtherIntervalUntouched ==
    (last.op = "updateRuntimeSettings") =>
        /\ (last.patch.farmIntervalSec # Undefined
               /\ last.patch.friendIntervalSec = Undefined) =>
              config.friendCheckInterval = last.prev.friendCheckInterval
        /\ (last.patch.friendIntervalSec # Undefined
               /\ last.patch.farmIntervalSec = Undefined) =>
              config.farmCheckInterval = last.prev.farmCheckInterval

-----------------------------------------------------------------------------
(* Properties of the routes *)

\* C21: requests to /api/state, /api/logs, GET /api/strategy and GET
\* /api/settings change no part of the state, and a /api/state response that
\* follows another one with nothing in between carries the same status,
\* strategy, settings and lastLogId.
C21_ReadsChangeNothing ==
    (last.op = "handleRequest" /\ last.read) =>
        /\ status = last.prev.status
        /\ baseline = last.prev.baseline
        /\ strategy = last.prev.strategy
        /\ config = last.prev.config
        /\ logs = last.prev.logs
        /\ (last.stateBefore # NoResp /\ resp.kind = "state") =>
              /\ resp.status = last.stateBefore.status
              /\ resp.strategy = last.stateBefore.strategy
              /\ resp.settings = last.stateBefore.settings
              /\ resp.lastLogId = last.stateBefore.lastLogId

\* C21 witness: after a login, a pinned seed and two log entries, /api/state
\* was requested twice in a row.
C21_Witness ==
    /\ last.op = "handleRequest" /\ last.read /\ last.stateBefore # NoResp
    /\ resp.kind = "state" /\ resp.status.name = "A"
    /\ resp.strategy.manualSeedId = 7
    /\ resp.lastLogId = 2

\* The rows of the route table: the paths answered for GET alone, and the two
\* answered for GET and POST
InRouteTable(method, path) ==
    \/ method = "GET" /\ path \in {"/", "/calc", "/api/state", "/api/calc", "/api/logs"}
    \/ method \in {"GET", "POST"} /\ path \in {"/api/settings", "/api/strategy"}

\* C22: every authorized request whose (method, path) pair is not a row of
\* the route table gets 404 {error: 'Not Found'} and changes no state: /,
\* /calc/*, /api/state, /api/calc and /api/logs answer only GET, and
\* /api/settings and /api/strategy only GET and POST.
C22_OutsideTableIsNotFound ==
    (last.op = "handleRequest" /\ resp.code # 401
        /\ ~InRouteTable(last.method, last.path)) =>
        /\ resp = [kind |-> "json", code |-> 404, error |-> "Not Found"]
        /\ status = last.prev.status
        /\ baseline = last.prev.baseline
        /\ strategy = last.prev.strategy
        /\ config = last.prev.config
        /\ logs = last.prev.logs

\* C23: every request passed to handleRequest gets exactly one response and
\* no exception escapes the handler, also when getLevelExpProgress or the
\* recommendation function throws, when the URL cannot be parsed and when the
\* body is malformed; a failure of the recommendation is answered 500 with an
\* error message.
C23_EveryRequestIsAnswered ==
    (last.op = "handleRequest") =>
        /\ resp.kind # "exception"
        /\ resp.code \in {200, 400, 401, 404, 500}
        /\ (resp.code = 500) => (last.path = "/api/calc" /\ resp.error # "")

\* C25: for every request path that begins with /calc the file that is
\* served lies inside the directory FarmCalc, the root itself or a descendant
\* of it; a path that resolves anywhere else, a sibling directory whose name
\* starts with FarmCalc included, is answered 404.
C25_ServedFilesAreInsideRoot ==
    (last.op = "calcRequest" /\ StartsWith(last.pathname, <<"/", "calc">>)) =>
        /\ resp.kind = "file" => InsideRoot(resp.abs)
        /\ resp.kind # "file" => resp = [kind |-> "json", code |-> 404, error |-> "Not Found"]

\* The strategy after the patches of the ended bodies were applied one at a
\* time, in the order the bodies ended
RECURSIVE StrategyAfterAll(_)
StrategyAfterAll(done) ==
    IF done = <<>> THEN InitStrategy
    ELSE LET s == StrategyAfterAll(DropLast(done))
             post == done[Len(done)]
         IN  IF post.path = "/api/strategy" /\ post.body.kind # "invalid"
             THEN UpdatedStrategy(s, post.body.strategy)
             ELSE s

\* The configuration after the same
RECURSIVE ConfigAfterAll(_)
ConfigAfterAll(done) ==
    IF done = <<>> THEN InitConfig
    ELSE LET cfg == ConfigAfterAll(DropLast(done))
             post == done[Len(done)]
         IN  IF /\ post.path = "/api/settings" /\ post.body.kind # "invalid"
                /\ SettingsError(post.body.settings) = ""
             THEN ConfigAfter(cfg, post.body.settings)
             ELSE cfg

\* C26: with several POST requests to /api/strategy and /api/settings in
\* flight, their chunks interleaved with each other and with updateStatus,
\* addLog and GET requests, every patch is applied in one step after its body
\* has ended: strategy and settings are at every moment what applying the
\* patches of the ended bodies one at a time in that order gives, and every
\* response shows exactly that.
C26_PatchesApplyInCompletionOrder ==
    /\ strategy = StrategyAfterAll(completed)
    /\ config = ConfigAfterAll(completed)
    /\ (resp.kind = "strategy") => resp.value = getStrategyConfig
    /\ (resp.kind = "settings") => resp.value = getRuntimeSettings

\* C26 witness: the request that pins the seed 7 arrived first and the one that
\* clears the pin and sets the mode second, their chunks interleaved; the
\* second body ended first, and the seed is pinned.
C26_Witness ==
    /\ last.op = "bodyEnd" /\ Len(completed) = 2
    /\ completed[1].id = 2 /\ completed[2].id = 1
    /\ completed[1].body.strategy.clearManual
    /\ strategy.manualSeedId = 7 /\ strategy.mode = "noFert"

-----------------------------------------------------------------------------
(* Properties of the launcher *)

\* C32: the launcher spawns the client only when its arguments contain
\* --code, --qr, --decode or --verify, and exits with code 1 without spawning
\* otherwise; once the child has ended the launcher ends the same way, with
\* the child's exit code, or killed by the signal that killed the child,
\* SIGINT and SIGTERM included.
C32_LauncherEndsLikeChild ==
    /\ (launcher.phase \in {"running", "ended"}) =>
          /\ launcher.spawned <=>
                \E i \in 1 .. Len(launcher.args) :
                    launcher.args[i] \in {"--code", "--qr", "--decode", "--verify"}
          /\ ~launcher.spawned => launcher.end = [kind |-> "exit", code |-> 1, signal |-> ""]
    /\ (launcher.phase = "ended" /\ launcher.spawned) => launcher.end = launcher.child

-----------------------------------------------------------------------------
(* Properties of the authorization *)

\* The request handled last passed ensureAuthorized: it was not answered 401
Authorized == resp.code # 401

\* C19: with a configured secret, a request is authorized if and only if its
\* ?token= query value or its Authorization: Bearer value equals the secret;
\* with no configured secret every request is authorized.
C19_AuthorizedIffTokenMatches ==
    (last.op = "handleRequest") =>
        IF dashboardToken = ""
        THEN Authorized
        ELSE Authorized <=>
                \/ last.token = dashboardToken
                \/ /\ last.authorization.scheme = "Bearer"
                   /\ last.authorization.value = dashboardToken

\* The token the request handled last presented: its ?token= value when it
\* has one, else its Bearer value
Presented ==
    IF last.token # "" THEN last.token
    ELSE IF last.authorization.scheme = "Bearer" THEN last.authorization.value
    ELSE ""

\* The store and the settings are what they were before the request
StoreUntouched ==
    /\ status = last.prev.status
    /\ baseline = last.prev.baseline
    /\ strategy = last.prev.strategy
    /\ config = last.prev.config
    /\ logs = last.prev.logs

====
